---------------------------- MODULE Spec2Model ----------------------------
(***************************************************************************)
(* Model of blackmarket_rotator_main.py: the rotation of a black market    *)
(* trader over a list of configured positions, by rewriting a map file and *)
(* a trader-zone file per server and announcing the move over a webhook.   *)
(*                                                                         *)
(* Text is modelled as sequences of tokens.  A token is a record           *)
(* [k, s, v]: k is the kind of the token, s its text and v the value of a  *)
(* number literal.  Coordinates are fixed-point numbers in units of 1/20,  *)
(* so that the tolerance 0.1 of the coordinate match is 2 units.  A number *)
(* is a record [v, f]: its value and whether it is a Python float (an int  *)
(* and a float of the same value print differently).                       *)
(***************************************************************************)
EXTENDS Integers, Sequences, FiniteSets, TLC

\* ------------------------------------------------------------------ bounds
\* The longest map file (in lines) drawn as an input of the pure functions.
MaxLines == 2
\* The number of command-line invocations of the program in one behaviour.
MaxRuns == 3
\* The I/O faults (a failing makedirs, open or write) in one behaviour.
MaxFaults == 1

\* ----------------------------------------------------------------- numbers
\* 0.1 in units of 1/20: the tolerance of the coordinate match.
Tolerance == 2

Int_(n) == [v |-> n, f |-> FALSE]
Flt(n) == [v |-> n, f |-> TRUE]

Abs(x) == IF x < 0 THEN -x ELSE x

\* ------------------------------------------------------------------ tokens
Txt(s) == [k |-> "txt", s |-> s, v |-> 0]
SP == [k |-> "sp", s |-> " ", v |-> 0]
BAR == [k |-> "bar", s |-> "|", v |-> 0]
\* The vending marker '.Blackmarket|' and the vehicle marker
\* '.Blackmarket_Vehicles|': neither is a substring of the other.
VEND == [k |-> "vend", s |-> ".Blackmarket|", v |-> 0]
VEH == [k |-> "veh", s |-> ".Blackmarket_Vehicles|", v |-> 0]

\* str(x) of a number, as an f-string prints it: "100" for an int, "100.0"
\* for a float.
FormatNum(x) == [k |-> "num", s |-> IF x.f THEN "float" ELSE "int", v |-> x.v]

HasTok(line, tok) == \E i \in 1..Len(line) : line[i] = tok

\* str.rstrip(): the line without its trailing whitespace.
RECURSIVE rstrip(_)
rstrip(line) ==
    IF line = <<>> THEN <<>>
    ELSE IF line[Len(line)].k = "sp" THEN rstrip(SubSeq(line, 1, Len(line) - 1))
    ELSE line

RECURSIVE lstrip(_)
lstrip(line) ==
    IF line = <<>> THEN <<>>
    ELSE IF line[1].k = "sp" THEN lstrip(Tail(line))
    ELSE line

\* str.strip()
strip(line) == lstrip(rstrip(line))

\* str.split('|'): the parts between the pipes.  A marker token ends with
\* the pipe, and its text before the pipe stays with the part it closes.
RECURSIVE SplitPipe(_, _)
SplitPipe(line, cur) ==
    IF line = <<>> THEN <<cur>>
    ELSE LET t == line[1] IN
         IF t.k = "bar" THEN <<cur>> \o SplitPipe(Tail(line), <<>>)
         ELSE IF t.k = "vend"
              THEN <<Append(cur, Txt(".Blackmarket"))>> \o SplitPipe(Tail(line), <<>>)
         ELSE IF t.k = "veh"
              THEN <<Append(cur, Txt(".Blackmarket_Vehicles"))>> \o SplitPipe(Tail(line), <<>>)
         ELSE SplitPipe(Tail(line), Append(cur, t))

\* str.split(): the maximal runs of non-whitespace tokens.
RECURSIVE SplitWs(_, _)
SplitWs(part, cur) ==
    IF part = <<>> THEN (IF cur = <<>> THEN <<>> ELSE <<cur>>)
    ELSE IF part[1].k = "sp"
         THEN (IF cur = <<>> THEN <<>> ELSE <<cur>>) \o SplitWs(Tail(part), <<>>)
         ELSE SplitWs(Tail(part), Append(cur, part[1]))

\* float(word): a word that is one number literal parses to a float of its
\* value; any other word raises ValueError.
FloatOk(word) == Len(word) = 1 /\ word[1].k = "num"
\* A bug: the fraction of the number is lost (20 units are 1.0).
FloatOfTruncates(word) == Flt((word[1].v \div 20) * 20)
FloatOf(word) == Flt(word[1].v)

\* ---------------------------------------------------------------- positions
\* A position is a Python dict: a function from its keys.
Get(d, key, default) == IF key \in DOMAIN d THEN d[key] ELSE default

DefaultRotation == <<Flt(0), Flt(0), Flt(0)>>

IsVendingLine(line) == HasTok(line, VEND) /\ ~HasTok(line, VEH)
IsVehicleLine(line) == HasTok(line, VEH)


\* ------------------------------------------------------- files on the disk
\* A map file: st is "missing", "unreadable" (open or decode fails) or "ok",
\* and lines its lines without their line ends.
MapFile(lines) == [st |-> "ok", lines |-> lines]
MissingMap == [st |-> "missing", lines |-> <<>>]
UnreadableMap == [st |-> "unreadable", lines |-> <<>>]

\* A trader-zone file: st is "missing", "garbage" (not JSON) or "ok"; kind
\* says whether the JSON value is an object or a list, doc is the object.
TzFile(doc) == [st |-> "ok", kind |-> "obj", doc |-> doc]
MissingTz == [st |-> "missing", kind |-> "none", doc |-> <<>>]
GarbageTz == [st |-> "garbage", kind |-> "none", doc |-> <<>>]
ListTz == [st |-> "ok", kind |-> "list", doc |-> <<>>]

\* ------------------------------------------- get_current_position_from_map
\* The loop over the lines: the coordinates of the first vending line that
\* has at least two pipe-separated parts and three words in the second.
\* kind is "none" (no such line), "raise" (float() raised) or "coords".
RECURSIVE ScanVending(_)
ScanVending(lines) ==
    IF lines = <<>> THEN [kind |-> "none", c |-> <<>>]
    ELSE LET line == lines[1]
             parts == SplitPipe(strip(line), <<>>)
             words == IF Len(parts) >= 2 THEN SplitWs(parts[2], <<>>) ELSE <<>>
         IN IF IsVendingLine(line) /\ Len(parts) >= 2 /\ Len(words) >= 3
            THEN IF FloatOk(words[1]) /\ FloatOk(words[2]) /\ FloatOk(words[3])
                 THEN [kind |-> "coords",
                       c |-> <<FloatOf(words[1]), FloatOf(words[2]), FloatOf(words[3])>>]
                 ELSE [kind |-> "raise", c |-> <<>>]
            ELSE ScanVending(Tail(lines))

\* A bug: a difference of exactly 0.1 matches.
CoordsMatchInclusive(cur, pos_coords) ==
    /\ Abs(cur[1].v - pos_coords[1].v) <= Tolerance
    /\ Abs(cur[2].v - pos_coords[2].v) <= Tolerance
    /\ Abs(cur[3].v - pos_coords[3].v) <= Tolerance

\* The tolerant comparison of lines 417-419.
CoordsMatch(cur, pos_coords) ==
    /\ Abs(cur[1].v - pos_coords[1].v) < Tolerance
    /\ Abs(cur[2].v - pos_coords[2].v) < Tolerance
    /\ Abs(cur[3].v - pos_coords[3].v) < Tolerance

Matching(cur, positions) ==
    {i \in 1..Len(positions) :
        CoordsMatch(cur, positions[i]["Blackmarket_Vending_Coordinates"])}

Min(S) == CHOOSE x \in S : \A y \in S : x <= y

\* A bug: the loop variable is returned when no position matches.
get_current_position_returns_last(file, positions) ==
    IF file.st = "missing" THEN [index |-> 0, reason |-> "not_found"]
    ELSE IF file.st = "unreadable" THEN [index |-> 0, reason |-> "error"]
    ELSE LET found == ScanVending(file.lines) IN
         IF found.kind = "raise" THEN [index |-> 0, reason |-> "error"]
         ELSE IF found.kind = "none" THEN [index |-> 0, reason |-> "no_coords"]
         ELSE LET m == Matching(found.c, positions) IN
              IF m = {} THEN [index |-> Len(positions) - 1, reason |-> "no_match"]
              ELSE [index |-> Min(m) - 1, reason |-> "matched"]

\* The index returned (0-based, as in the code) and the reason printed.
get_current_position_from_map(file, positions) ==
    IF file.st = "missing" THEN [index |-> 0, reason |-> "not_found"]
    ELSE IF file.st = "unreadable" THEN [index |-> 0, reason |-> "error"]
    ELSE LET found == ScanVending(file.lines) IN
         IF found.kind = "raise" THEN [index |-> 0, reason |-> "error"]
         ELSE IF found.kind = "none" THEN [index |-> 0, reason |-> "no_coords"]
         ELSE LET m == Matching(found.c, positions) IN
              IF m = {} THEN [index |-> 0, reason |-> "no_match"]
              ELSE [index |-> Min(m) - 1, reason |-> "matched"]

\* -------------------------------------------------------- get_next_position
\* A bug: the index stops at the last position instead of wrapping.
next_index_saturates(current_index, positions) ==
    IF current_index + 1 >= Len(positions) THEN current_index
    ELSE current_index + 1

next_index(current_index, positions) == (current_index + 1) % Len(positions)

\* ----------------------------------------------------------- update_map_file
FormatLine(classname, marker, coords, rotation) ==
    <<Txt(classname), marker,
      FormatNum(coords[1]), SP, FormatNum(coords[2]), SP, FormatNum(coords[3]), BAR,
      FormatNum(rotation[1]), SP, FormatNum(rotation[2]), SP, FormatNum(rotation[3])>>

\* A bug: the rotation is printed where the coordinates belong.
NewVendingLineSwapped(position) ==
    FormatLine(position["Blackmarket_Vending_Classname"], VEND,
               Get(position, "Blackmarket_Vending_Rotation", DefaultRotation),
               position["Blackmarket_Vending_Coordinates"])

NewVendingLine(position) ==
    FormatLine(position["Blackmarket_Vending_Classname"], VEND,
               position["Blackmarket_Vending_Coordinates"],
               Get(position, "Blackmarket_Vending_Rotation", DefaultRotation))

NewVehicleLine(position) ==
    FormatLine(position["Blackmarket_Vehicle_Classname"], VEH,
               position["Blackmarket_Vehicle_Coordinates"],
               Get(position, "Blackmarket_Vehicle_Rotation", DefaultRotation))

\* The loop of lines 474-492 over the right-stripped lines.
RECURSIVE RewriteLines(_, _, _)
\* A bug: the loop is left once the vending line is replaced.
RewriteLinesBreaks(lines, position, vehicles_enabled) ==
    IF lines = <<>> THEN <<>>
    ELSE LET line == rstrip(lines[1])
             rest == RewriteLines(Tail(lines), position, vehicles_enabled)
         IN IF strip(line) = <<>> THEN rest
            ELSE IF IsVendingLine(line) THEN <<NewVendingLine(position)>>
            ELSE IF IsVehicleLine(line)
                 THEN IF vehicles_enabled
                      THEN <<NewVehicleLine(position)>> \o rest
                      ELSE rest
            ELSE <<line>> \o rest

\* A bug: with vehicles disabled an existing vehicle line is kept.
RewriteLinesKeepsVehicle(lines, position, vehicles_enabled) ==
    IF lines = <<>> THEN <<>>
    ELSE LET line == rstrip(lines[1])
             rest == RewriteLines(Tail(lines), position, vehicles_enabled)
         IN IF strip(line) = <<>> THEN rest
            ELSE IF IsVendingLine(line) THEN <<NewVendingLine(position)>> \o rest
            ELSE IF IsVehicleLine(line) /\ vehicles_enabled
                 THEN <<NewVehicleLine(position)>> \o rest
            ELSE <<line>> \o rest

RewriteLines(lines, position, vehicles_enabled) ==
    IF lines = <<>> THEN <<>>
    ELSE LET line == rstrip(lines[1])
             rest == RewriteLines(Tail(lines), position, vehicles_enabled)
         IN IF strip(line) = <<>> THEN rest
            ELSE IF IsVendingLine(line) THEN <<NewVendingLine(position)>> \o rest
            ELSE IF IsVehicleLine(line)
                 THEN IF vehicles_enabled
                      THEN <<NewVehicleLine(position)>> \o rest
                      ELSE rest
            ELSE <<line>> \o rest

\* The lines of the returned content (it ends each with a line end).
update_map_file(lines, position, vehicles_enabled) ==
    LET vending_updated == \E i \in 1..Len(lines) : IsVendingLine(rstrip(lines[i]))
        vehicle_updated == vehicles_enabled
                           /\ \E i \in 1..Len(lines) :
                                 /\ ~IsVendingLine(rstrip(lines[i]))
                                 /\ IsVehicleLine(rstrip(lines[i]))
        updated == RewriteLines(lines, position, vehicles_enabled)
    IN updated
       \o (IF vending_updated THEN <<>> ELSE <<NewVendingLine(position)>>)
       \o (IF vehicles_enabled /\ ~vehicle_updated
           THEN <<NewVehicleLine(position)>> ELSE <<>>)

\* --------------------------------------------------- update_trader_zone_file
\* A bug: the document is replaced instead of updated.
update_trader_zone_file_replaces(doc, position) ==
    [key \in {"Position"} |-> position["Blackmarket_Vending_Coordinates"]]

\* The document returned for a trader-zone file holding the object doc.
update_trader_zone_file(doc, position) ==
    [key \in DOMAIN doc \cup {"Position"} |->
        IF key = "Position" THEN position["Blackmarket_Vending_Coordinates"]
        ELSE doc[key]]

\* -------------------------------------------------------- check_vehicles_enabled
check_vehicles_enabled(positions) ==
    \E i \in 1..Len(positions) :
        \/ "Blackmarket_Vehicle_Classname" \in DOMAIN positions[i]
        \/ "Blackmarket_Vehicle_Coordinates" \in DOMAIN positions[i]


\* ------------------------------------------------------------ ConfigValidator
\* A validation error: what is wrong, at which position or server, with
\* which field.
Err(code, at, field) == [code |-> code, at |-> at, field |-> field]

RECURSIVE Concat(_)
Concat(seqs) == IF seqs = <<>> THEN <<>> ELSE seqs[1] \o Concat(Tail(seqs))

RequiredTopLevel == <<"servers", "global_settings", "scheduler_settings", "positions">>

\* The value of a top-level key as Python sees it: kind is "dict", "list"
\* or "str".  A dict of servers is the sequence of its items in their
\* declared order, any other dict a function from its keys; a list is the
\* sequence of its items; a str is its text.
Py(kind, val) == [kind |-> kind, val |-> val]

\* A document whose sections have the container kinds the program expects.
Typed(config) ==
    [key \in DOMAIN config |->
        Py(IF key = "positions" THEN "list" ELSE "dict", config[key])]

\* not v
Falsy(v) == IF v.kind = "str" THEN v.val = "" ELSE v.val = <<>>

\* key in v: a key of a dict, an item of a list, a substring of a str (the
\* strings of the model contain a key only when they are the key).
Contains(v, key) ==
    CASE v.kind = "dict" -> key \in DOMAIN v.val
      [] v.kind = "list" -> \E n \in 1..Len(v.val) : v.val[n] = key
      [] v.kind = "str" -> v.val = key

\* What a section validator did: the exception it raised ("none" when it
\* returned) and the errors it appended.
Returned(errors) == [raised |-> "none", errors |-> errors]
Raised(exception) == [raised |-> exception, errors |-> <<>>]

\* Lines 61-66: a key that is there is looked at only when it is neither a
\* dict nor a list.
validate_top_level_structure(config) ==
    Concat([n \in 1..Len(RequiredTopLevel) |->
        LET key == RequiredTopLevel[n] IN
        IF key \notin DOMAIN config
        THEN <<Err("missing_top_level_key", 0, key)>>
        ELSE IF config[key].kind \notin {"dict", "list"}
        THEN (IF key = "positions" THEN <<Err("must_be_list", 0, key)>>
              ELSE <<Err("must_be_object", 0, key)>>)
        ELSE <<>>])

RequiredServerFields == <<"name", "blackmarket_map_path", "blackmarket_trader_zone_path">>

\* servers.items() raises AttributeError on a list and on a str.
validate_servers(servers) ==
    IF Falsy(servers) THEN Returned(<<Err("no_server", 0, "servers")>>)
    ELSE IF servers.kind # "dict" THEN Raised("AttributeError")
    ELSE Returned(Concat([n \in 1..Len(servers.val) |->
        Concat([m \in 1..Len(RequiredServerFields) |->
            IF RequiredServerFields[m] \notin DOMAIN servers.val[n].cfg
            THEN <<Err("server_missing_field", n, RequiredServerFields[m])>>
            ELSE IF servers.val[n].cfg[RequiredServerFields[m]] = ""
            THEN <<Err("server_empty_field", n, RequiredServerFields[m])>>
            ELSE <<>>])]))

\* A color string is modelled by its prefix: "0x" or "#" followed by hex
\* digits, or "bad" for any other string.  A key that is 'in' a list or a
\* str is then used as a subscript of it, which raises TypeError.
validate_global_settings(global_settings) ==
    IF global_settings.kind # "dict"
    THEN (IF Contains(global_settings, "discord_username")
             \/ Contains(global_settings, "discord_embed_color")
          THEN Raised("TypeError") ELSE Returned(<<>>))
    ELSE IF "discord_embed_color" \notin DOMAIN global_settings.val THEN Returned(<<>>)
    ELSE IF global_settings.val["discord_embed_color"] \notin {"0x", "#"}
    THEN Returned(<<Err("bad_color", 0, "discord_embed_color")>>)
    ELSE Returned(<<>>)

SchedulerKeys ==
    {"rotation_times", "check_interval_seconds", "server_rotation_delay_seconds",
     "enabled", "rotate_all_servers", "log_file"}

\* Of the settings of the scheduler the two numbers are modelled with their
\* ranges; the times, the flags and the log file are of the right type.
validate_scheduler_settings(scheduler_settings) ==
    IF scheduler_settings.kind # "dict"
    THEN (IF \E key \in SchedulerKeys : Contains(scheduler_settings, key)
          THEN Raised("TypeError") ELSE Returned(<<>>))
    ELSE LET d == scheduler_settings.val IN
         Returned(
            (IF "check_interval_seconds" \in DOMAIN d
                /\ ~(1 <= d["check_interval_seconds"] /\ d["check_interval_seconds"] <= 3600)
             THEN <<Err("out_of_range", 0, "check_interval_seconds")>> ELSE <<>>)
            \o
            (IF "server_rotation_delay_seconds" \in DOMAIN d
                /\ ~(0 <= d["server_rotation_delay_seconds"]
                     /\ d["server_rotation_delay_seconds"] <= 300)
             THEN <<Err("out_of_range", 0, "server_rotation_delay_seconds")>> ELSE <<>>))

VehicleFields == <<"Blackmarket_Vehicle_Classname", "Blackmarket_Vehicle_Coordinates">>

\* A bug: of the vehicle fields only the classname is required.
RequiredPositionFieldsClassnameOnly(vehicle_required) ==
    <<"name", "Blackmarket_Vending_Classname", "Blackmarket_Vending_Coordinates">>
    \o (IF vehicle_required THEN <<"Blackmarket_Vehicle_Classname">> ELSE <<>>)

RequiredPositionFields(vehicle_required) ==
    <<"name", "Blackmarket_Vending_Classname", "Blackmarket_Vending_Coordinates">>
    \o (IF vehicle_required THEN VehicleFields ELSE <<>>)

validate_positions(positions) ==
    IF Falsy(positions) THEN Returned(<<Err("no_position", 0, "positions")>>)
    ELSE IF positions.kind # "list" THEN Returned(<<Err("must_be_list", 0, "positions")>>)
    ELSE LET vehicle_required == check_vehicles_enabled(positions.val)
             required == RequiredPositionFields(vehicle_required)
         IN Returned(Concat([n \in 1..Len(positions.val) |->
                Concat([m \in 1..Len(required) |->
                    IF required[m] \notin DOMAIN positions.val[n]
                    THEN <<Err("position_missing_field", n - 1, required[m])>>
                    ELSE <<>>])]))

\* The section validators in the order of lines 37-47; a section that is
\* not there is skipped, and an exception ends the validation.
RECURSIVE RunValidators(_, _)
RunValidators(steps, errors) ==
    IF steps = <<>> THEN Returned(errors)
    ELSE IF steps[1].raised # "none" THEN Raised(steps[1].raised)
    ELSE RunValidators(Tail(steps), errors \o steps[1].errors)

\* validate_config: result is "pass" (it returns True), "ValueError" (the
\* aggregated validation failure, with its errors) or the exception that a
\* section validator raised.
validate_config(config) ==
    LET section(key, outcome) == IF key \in DOMAIN config THEN outcome ELSE Returned(<<>>)
        done == RunValidators(
            <<Returned(validate_top_level_structure(config)),
              section("servers", validate_servers(config["servers"])),
              section("global_settings", validate_global_settings(config["global_settings"])),
              section("scheduler_settings",
                      validate_scheduler_settings(config["scheduler_settings"])),
              section("positions", validate_positions(config["positions"]))>>, <<>>)
    IN IF done.raised # "none" THEN [result |-> done.raised, errors |-> <<>>]
       ELSE IF done.errors # <<>> THEN [result |-> "ValueError", errors |-> done.errors]
       ELSE [result |-> "pass", errors |-> <<>>]


\* ---------------------------------------------------------------- the inputs
\* Positions.  100.0 map units are 2000 units of 1/20.
PosA == [name |-> "A", Blackmarket_Vending_Classname |-> "vend",
         Blackmarket_Vending_Coordinates |-> <<Int_(0), Int_(0), Int_(0)>>]
PosB == [name |-> "B", Blackmarket_Vending_Classname |-> "vend",
         Blackmarket_Vending_Coordinates |-> <<Int_(2000), Int_(0), Int_(0)>>,
         Blackmarket_Vending_Rotation |-> <<Flt(900), Flt(0), Flt(0)>>]
PosC == [name |-> "C", Blackmarket_Vending_Classname |-> "kiosk",
         Blackmarket_Vending_Coordinates |-> <<Flt(0), Flt(65), Flt(3)>>]
\* 0.05 away from A on one axis: within the tolerance of A.
PosA2 == [name |-> "A2", Blackmarket_Vending_Classname |-> "vend",
          Blackmarket_Vending_Coordinates |-> <<Flt(1), Int_(0), Int_(0)>>]
VehicleOf(coords) ==
    [Blackmarket_Vehicle_Classname |-> "truck",
     Blackmarket_Vehicle_Coordinates |-> coords]
PosAV == PosA @@ VehicleOf(<<Int_(10), Int_(0), Int_(0)>>)
PosBV == PosB @@ VehicleOf(<<Int_(2010), Int_(0), Int_(0)>>)
         @@ [Blackmarket_Vehicle_Rotation |-> <<Flt(0), Flt(1800), Flt(0)>>]

\* Lines of a map file.
OtherLine == <<Txt("Land_Shed"), BAR, FormatNum(Int_(5)), SP, FormatNum(Int_(6))>>
TrailingLine == <<Txt("Land_Tent"), SP>>
IndentLine == <<SP, Txt("Land_Shed")>>
BlankLine == <<>>
SpaceLine == <<SP>>
VendLineAt(coords) == FormatLine("vend", VEND, coords, DefaultRotation)
VendA == VendLineAt(<<Flt(0), Flt(0), Flt(0)>>)
VendB == VendLineAt(<<Flt(2000), Flt(0), Flt(0)>>)
\* 0.05 and 0.1 away from A on the first axis.
VendNearA == VendLineAt(<<Flt(1), Flt(0), Flt(0)>>)
VendTolA == VendLineAt(<<Flt(0), Flt(0), Flt(2)>>)
\* A vending line with two coordinates only, and one whose first
\* coordinate is no number.
ShortVend == <<Txt("vend"), VEND, FormatNum(Flt(0)), SP, FormatNum(Flt(0))>>
BadVend == <<Txt("vend"), VEND, Txt("x"), SP, FormatNum(Flt(0)), SP, FormatNum(Flt(0))>>
VehLine == FormatLine("truck", VEH, <<Flt(10), Flt(0), Flt(0)>>, DefaultRotation)
\* A line that carries both markers.
BothLine == <<Txt("a"), VEND, Txt("b"), VEH, FormatNum(Flt(0))>>

\* The configuration document of the base scenario: two enabled servers with
\* a webhook each, positions A and B without vehicles.
ServerCfg(name, map_path, tz_path) ==
    [name |-> name, blackmarket_map_path |-> map_path,
     blackmarket_trader_zone_path |-> tz_path,
     discord_webhook_url |-> "https://discord.com/api/webhooks/1",
     enabled |-> TRUE]

BaseConfig ==
    [servers |-> <<[id |-> "s1", cfg |-> ServerCfg("One", "map1", "tz1")],
                   [id |-> "s2", cfg |-> ServerCfg("Two", "map2", "tz2")]>>,
     global_settings |-> [discord_username |-> "Rotator", discord_embed_color |-> "0x"],
     scheduler_settings |-> [server_rotation_delay_seconds |-> 5],
     positions |-> <<PosA, PosB>>]

BaseDoc == [Position |-> <<Int_(0), Int_(0), Int_(0)>>, Stock |-> 5, BuyPricePercent |-> 70]

\* A scenario: the configuration file, the files of the two servers and the
\* command line.
BaseScenario ==
    [cfg |-> [st |-> "ok", doc |-> BaseConfig],
     maps |-> [path \in {"map1", "map2"} |-> MapFile(<<OtherLine, VendA>>)],
     tzs |-> [path \in {"tz1", "tz2"} |-> TzFile(BaseDoc)],
     cmd |-> [kind |-> "all", server |-> ""]]

RemoveKey(d, key) == [x \in DOMAIN d \ {key} |-> d[x]]
SetKey(d, key, val) == [x \in DOMAIN d \cup {key} |-> IF x = key THEN val ELSE d[x]]

WithPositions(sc, positions) ==
    [sc EXCEPT !.cfg.doc = [sc.cfg.doc EXCEPT !["positions"] = positions]]
WithMap(sc, path, file) == [sc EXCEPT !.maps[path] = file]
WithTz(sc, path, file) == [sc EXCEPT !.tzs[path] = file]
WithServerCfg(sc, n, cfg) ==
    [sc EXCEPT !.cfg.doc = [sc.cfg.doc EXCEPT !["servers"] =
        [sc.cfg.doc["servers"] EXCEPT ![n] = [id |-> @.id, cfg |-> cfg]]]]
ServerCfgOf(sc, n) == sc.cfg.doc["servers"][n].cfg
WithGlobal(sc, gs) ==
    [sc EXCEPT !.cfg.doc = [sc.cfg.doc EXCEPT !["global_settings"] = gs]]

Deviations ==
    {"none",
     "pos_single", "pos_three", "pos_near", "pos_near_three", "pos_vehicles",
     "pos_empty", "pos_mixed_vehicles",
     "map1_missing", "map1_unreadable", "map1_no_vending", "map1_at_B",
     "map1_unmatched", "map1_bad_float", "map1_vehicle", "map1_blank",
     "tz1_missing", "tz1_garbage", "tz1_list", "tz1_no_position",
     "map2_missing", "tz2_missing",
     "s1_disabled", "s2_disabled", "s2_enabled_absent", "s1_no_webhook", "s1_empty_webhook",
     "s2_empty_webhook",
     "color_hash", "color_absent", "username_absent",
     "cfg_missing", "cfg_badjson",
     "cmd_s1", "cmd_s2", "cmd_nosuch"}

\* The scenario sc changed in one place.
Deviate(sc, d) ==
    CASE d = "none" -> sc
      [] d = "pos_single" -> WithPositions(sc, <<PosA>>)
      [] d = "pos_three" -> WithPositions(sc, <<PosA, PosB, PosC>>)
      [] d = "pos_near" -> WithPositions(sc, <<PosA, PosA2>>)
      [] d = "pos_near_three" -> WithPositions(sc, <<PosB, PosA, PosA2>>)
      [] d = "pos_vehicles" -> WithPositions(sc, <<PosAV, PosBV>>)
      [] d = "pos_empty" -> WithPositions(sc, <<>>)
      [] d = "pos_mixed_vehicles" -> WithPositions(sc, <<PosAV, PosB>>)
      [] d = "map1_missing" -> WithMap(sc, "map1", MissingMap)
      [] d = "map1_unreadable" -> WithMap(sc, "map1", UnreadableMap)
      [] d = "map1_no_vending" -> WithMap(sc, "map1", MapFile(<<OtherLine>>))
      [] d = "map1_at_B" -> WithMap(sc, "map1", MapFile(<<VendB, OtherLine>>))
      [] d = "map1_unmatched" -> WithMap(sc, "map1", MapFile(<<VendTolA>>))
      [] d = "map1_bad_float" -> WithMap(sc, "map1", MapFile(<<BadVend, OtherLine>>))
      [] d = "map1_vehicle" -> WithMap(sc, "map1", MapFile(<<VehLine, VendNearA>>))
      [] d = "map1_blank" ->
            WithMap(sc, "map1", MapFile(<<TrailingLine, BlankLine, VendA, SpaceLine>>))
      [] d = "tz1_missing" -> WithTz(sc, "tz1", MissingTz)
      [] d = "tz1_garbage" -> WithTz(sc, "tz1", GarbageTz)
      [] d = "tz1_list" -> WithTz(sc, "tz1", ListTz)
      [] d = "tz1_no_position" -> WithTz(sc, "tz1", TzFile([Stock |-> 7]))
      [] d = "map2_missing" -> WithMap(sc, "map2", MissingMap)
      [] d = "tz2_missing" -> WithTz(sc, "tz2", MissingTz)
      [] d = "s1_disabled" ->
            WithServerCfg(sc, 1, SetKey(ServerCfgOf(sc, 1), "enabled", FALSE))
      [] d = "s2_disabled" ->
            WithServerCfg(sc, 2, SetKey(ServerCfgOf(sc, 2), "enabled", FALSE))
      [] d = "s2_enabled_absent" ->
            WithServerCfg(sc, 2, RemoveKey(ServerCfgOf(sc, 2), "enabled"))
      [] d = "s1_no_webhook" ->
            WithServerCfg(sc, 1, RemoveKey(ServerCfgOf(sc, 1), "discord_webhook_url"))
      [] d = "s1_empty_webhook" ->
            WithServerCfg(sc, 1, SetKey(ServerCfgOf(sc, 1), "discord_webhook_url", ""))
      [] d = "s2_empty_webhook" ->
            WithServerCfg(sc, 2, SetKey(ServerCfgOf(sc, 2), "discord_webhook_url", ""))
      [] d = "color_hash" ->
            WithGlobal(sc, SetKey(sc.cfg.doc["global_settings"], "discord_embed_color", "#"))
      [] d = "color_absent" ->
            WithGlobal(sc, RemoveKey(sc.cfg.doc["global_settings"], "discord_embed_color"))
      [] d = "username_absent" ->
            WithGlobal(sc, RemoveKey(sc.cfg.doc["global_settings"], "discord_username"))
      [] d = "cfg_missing" -> [sc EXCEPT !.cfg.st = "missing"]
      [] d = "cfg_badjson" -> [sc EXCEPT !.cfg.st = "badjson"]
      [] d = "cmd_s1" -> [sc EXCEPT !.cmd = [kind |-> "one", server |-> "s1"]]
      [] d = "cmd_s2" -> [sc EXCEPT !.cmd = [kind |-> "one", server |-> "s2"]]
      [] d = "cmd_nosuch" -> [sc EXCEPT !.cmd = [kind |-> "one", server |-> "s9"]]

\* The scenarios of the model: the base scenario changed in at most two places.
Scenarios == {Deviate(Deviate(BaseScenario, d1), d2) : d1, d2 \in Deviations}


\* ------------------------------------------------------------------ the state
VARIABLES
    cfgFile,          \* the configuration file: [st, doc]
    mapDisk,          \* path -> map file
    tzDisk,           \* path -> trader-zone file
    cmd,              \* the command line: rotate all servers, or one server
    run,              \* the invocations of the program so far
    pc,               \* where the program is
    target,           \* the server id rotate_server was called with
    enabled_servers,  \* rotate_all_servers: the ids of the enabled servers
    i,                \* rotate_all_servers: the loop index (0-based)
    success_count,    \* rotate_all_servers: the servers rotated with success
    rot,              \* the BlackmarketRotator of the server being rotated
    outcome,          \* what the invocation returned: "none", "true", "false"
    log,              \* the file and network operations of this invocation
    trail,            \* one entry per rotate_server call of all invocations
    faults,           \* the I/O faults injected so far
    fin,              \* the input of a pure function
    fout              \* and its result

vars == <<cfgFile, mapDisk, tzDisk, cmd, run, pc, target, enabled_servers, i,
          success_count, rot, outcome, log, trail, faults, fin, fout>>

NoRot ==
    [st |-> "none", server_id |-> "", blackmarket_map_path |-> "",
     blackmarket_trader_zone_path |-> "", discord_webhook_url |-> "",
     positions |-> <<>>, vehicles_enabled |-> FALSE,
     current_index |-> 0, reason |-> "", next |-> -1,
     map_content |-> <<>>, trader_zone |-> <<>>,
     wrote_map |-> FALSE, wrote_tz |-> FALSE,
     before_map |-> MissingMap, before_tz |-> MissingTz,
     failed |-> "none", http |-> "none", result |-> "none"]

NoInput == [fn |-> "none", file |-> MissingMap, positions |-> <<>>, index |-> 0, doc |-> <<>>]
NoOutput == [fn |-> "none", current |-> [index |-> 0, reason |-> ""],
             validation |-> [result |-> "", errors |-> <<>>],
             content |-> <<>>, trader_zone |-> <<>>]

Ev(op, server) == [op |-> op, server |-> server]

Init ==
    \E sc \in Scenarios :
        /\ cfgFile = sc.cfg
        /\ mapDisk = sc.maps
        /\ tzDisk = sc.tzs
        /\ cmd = sc.cmd
        /\ run = 0
        /\ pc = "idle"
        /\ target = ""
        /\ enabled_servers = <<>>
        /\ i = 0
        /\ success_count = 0
        /\ rot = NoRot
        /\ outcome = "none"
        /\ log = <<>>
        /\ trail = <<>>
        /\ faults = 0
        /\ fin = NoInput
        /\ fout = NoOutput

config == cfgFile.doc

\* sconfig.get('enabled', True) over the servers in their declared order.
RECURSIVE EnabledServers(_)
\* A bug: the enabled flag is not looked at.
EnabledServersIgnoresFlag(servers) == [n \in 1..Len(servers) |-> servers[n].id]

EnabledServers(servers) ==
    IF servers = <<>> THEN <<>>
    ELSE (IF Get(servers[1].cfg, "enabled", TRUE) THEN <<servers[1].id>> ELSE <<>>)
         \o EnabledServers(Tail(servers))

ServerIds(servers) == {servers[n].id : n \in 1..Len(servers)}
ServerConfig(servers, id) ==
    servers[CHOOSE n \in 1..Len(servers) : servers[n].id = id].cfg

FaultChoice == IF faults < MaxFaults THEN {FALSE, TRUE} ELSE {FALSE}

\* main(): the program is started with its command line.
Invoke ==
    /\ pc = "idle"
    /\ run < MaxRuns
    /\ run' = run + 1
    /\ log' = <<>>
    /\ outcome' = "none"
    /\ rot' = NoRot
    /\ enabled_servers' = <<>>
    /\ i' = 0
    /\ success_count' = 0
    /\ IF cmd.kind = "all"
       THEN pc' = "rotate_all_servers" /\ target' = ""
       ELSE pc' = "rotate_server" /\ target' = cmd.server
    /\ UNCHANGED <<cfgFile, mapDisk, tzDisk, cmd, trail, faults, fin, fout>>

\* rotate_all_servers up to its loop: the configuration is loaded (and not
\* validated) and the enabled servers are listed.
RotateAllLoad ==
    /\ pc = "rotate_all_servers"
    /\ IF cfgFile.st # "ok"
       THEN /\ outcome' = "false"
            /\ pc' = "idle"
            /\ UNCHANGED enabled_servers
       ELSE LET enabled == EnabledServers(config["servers"]) IN
            IF enabled = <<>>
            THEN /\ outcome' = "false"
                 /\ pc' = "idle"
                 /\ UNCHANGED enabled_servers
            ELSE /\ enabled_servers' = enabled
                 /\ pc' = "loop"
                 /\ UNCHANGED outcome
    /\ UNCHANGED <<cfgFile, mapDisk, tzDisk, cmd, run, target, i, success_count,
                   rot, log, trail, faults, fin, fout>>

\* The head of the loop body: the delay before every server but the first,
\* then the call of rotate_server.
LoopNext ==
    /\ pc = "loop"
    /\ i < Len(enabled_servers)
    /\ target' = enabled_servers[i + 1]
    /\ log' = IF i > 0 THEN Append(log, Ev("sleep", enabled_servers[i + 1])) ELSE log
    /\ rot' = NoRot
    /\ pc' = "rotate_server"
    /\ UNCHANGED <<cfgFile, mapDisk, tzDisk, cmd, run, enabled_servers, i,
                   success_count, outcome, trail, faults, fin, fout>>

\* The loop is over: success_count == len(enabled_servers).
LoopEnd ==
    /\ pc = "loop"
    /\ i = Len(enabled_servers)
    /\ outcome' = IF success_count = Len(enabled_servers) THEN "true" ELSE "false"
    /\ pc' = "idle"
    /\ UNCHANGED <<cfgFile, mapDisk, tzDisk, cmd, run, target, enabled_servers, i,
                   success_count, rot, log, trail, faults, fin, fout>>

\* A bug: the configuration is not validated when it is loaded.
InitFailureUnvalidated(id) ==
    IF cfgFile.st # "ok" THEN "config_unreadable"
    ELSE IF id \notin ServerIds(config["servers"]) THEN "server_not_found"
    ELSE IF "discord_webhook_url" \notin DOMAIN ServerConfig(config["servers"], id)
    THEN "webhook_key_error"
    ELSE "none"

\* Why BlackmarketRotator.__init__ raises, or "none".
InitFailure(id) ==
    IF cfgFile.st # "ok" THEN "config_unreadable"
    ELSE IF validate_config(Typed(config)).result # "pass" THEN "config_invalid"
    ELSE IF id \notin ServerIds(config["servers"]) THEN "server_not_found"
    ELSE IF "discord_webhook_url" \notin DOMAIN ServerConfig(config["servers"], id)
    THEN "webhook_key_error"
    ELSE "none"

\* rotate_server: the construction of the rotator, which loads and validates
\* the configuration and reads the current position from the map file.
Construct ==
    /\ pc = "rotate_server"
    /\ LET why == InitFailure(target) IN
       IF why # "none"
       THEN /\ rot' = [NoRot EXCEPT !.server_id = target, !.failed = why,
                                    !.result = "false"]
            /\ pc' = "server_done"
            /\ log' = Append(log, Ev("rotate_server", target))
       ELSE LET server_config == ServerConfig(config["servers"], target)
                positions == config["positions"]
                map_path == server_config["blackmarket_map_path"]
                current == get_current_position_from_map(mapDisk[map_path], positions)
            IN /\ rot' = [NoRot EXCEPT
                     !.st = "built",
                     !.server_id = target,
                     !.blackmarket_map_path = map_path,
                     !.blackmarket_trader_zone_path =
                         server_config["blackmarket_trader_zone_path"],
                     !.discord_webhook_url = server_config["discord_webhook_url"],
                     !.positions = positions,
                     !.vehicles_enabled = check_vehicles_enabled(positions),
                     !.current_index = current.index,
                     !.reason = current.reason,
                     !.before_map = mapDisk[map_path],
                     !.before_tz = tzDisk[server_config["blackmarket_trader_zone_path"]]]
               /\ log' = log \o <<Ev("rotate_server", target), Ev("read_map", target)>>
               /\ pc' = "rotate"
    /\ UNCHANGED <<cfgFile, mapDisk, tzDisk, cmd, run, target, enabled_servers, i,
                   success_count, outcome, trail, faults, fin, fout>>

\* A bug: a single position is rotated like any other list.
rotate_begin_always_rotates(r) ==
    IF r.positions = <<>> THEN [r EXCEPT !.result = "false", !.failed = "no_positions"]
    ELSE [r EXCEPT !.next = next_index(r.current_index, r.positions)]

\* rotate up to update_files.
rotate_begin(r) ==
    IF r.positions = <<>> THEN [r EXCEPT !.result = "false", !.failed = "no_positions"]
    ELSE IF Len(r.positions) = 1 THEN [r EXCEPT !.result = "true"]
    ELSE [r EXCEPT !.next = next_index(r.current_index, r.positions)]

Rotate ==
    /\ pc = "rotate"
    /\ rot' = rotate_begin(rot)
    /\ pc' = IF rot'.result = "none" THEN "update_map_file" ELSE "server_done"
    /\ UNCHANGED <<cfgFile, mapDisk, tzDisk, cmd, run, target, enabled_servers, i,
                   success_count, outcome, log, trail, faults, fin, fout>>

NextPosition(r) == r.positions[r.next + 1]

\* A bug: the exception handler of update_files reports success.
FailReportsSuccess(r, step) == [r EXCEPT !.failed = step, !.result = "true"]

\* The exception handler of update_files (and an exception that leaves
\* rotate for the handler of rotate_server): the step that raised, False.
Fail(r, step) == [r EXCEPT !.failed = step, !.result = "false"]

\* update_files: update_map_file reads the map file and renders its content.
ReadMap ==
    /\ pc = "update_map_file"
    /\ log' = Append(log, Ev("read_map", target))
    /\ LET file == mapDisk[rot.blackmarket_map_path] IN
       IF file.st # "ok"
       THEN rot' = Fail(rot, "read_map") /\ pc' = "server_done"
       ELSE /\ rot' = [rot EXCEPT !.map_content =
                          update_map_file(file.lines, NextPosition(rot),
                                          rot.vehicles_enabled)]
            /\ pc' = "open_map"
    /\ UNCHANGED <<cfgFile, mapDisk, tzDisk, cmd, run, target, enabled_servers, i,
                   success_count, outcome, trail, faults, fin, fout>>

\* os.makedirs and open(path, 'w'): either fails and leaves the file alone,
\* or the file is truncated.
OpenMap ==
    /\ pc = "open_map"
    /\ \E fault \in FaultChoice :
          IF fault
          THEN /\ rot' = Fail(rot, "open_map")
               /\ pc' = "server_done"
               /\ faults' = faults + 1
               /\ UNCHANGED <<mapDisk, log>>
          ELSE /\ mapDisk' = [mapDisk EXCEPT ![rot.blackmarket_map_path] = MapFile(<<>>)]
               /\ log' = Append(log, Ev("write_map", target))
               /\ pc' = "write_map"
               /\ UNCHANGED <<rot, faults>>
    /\ UNCHANGED <<cfgFile, tzDisk, cmd, run, target, enabled_servers, i,
                   success_count, outcome, trail, fin, fout>>

\* f.write(map_content) and the close of the file: the whole content, or on
\* a failing write some of its first lines.
WriteMap ==
    /\ pc = "write_map"
    /\ \E fault \in FaultChoice :
          IF fault
          THEN /\ \E n \in 0..(Len(rot.map_content) - 1) :
                     mapDisk' = [mapDisk EXCEPT ![rot.blackmarket_map_path] =
                                    MapFile(SubSeq(rot.map_content, 1, n))]
               /\ rot' = Fail(rot, "write_map")
               /\ pc' = "server_done"
               /\ faults' = faults + 1
          ELSE /\ mapDisk' = [mapDisk EXCEPT ![rot.blackmarket_map_path] =
                                 MapFile(rot.map_content)]
               /\ rot' = [rot EXCEPT !.wrote_map = TRUE]
               /\ pc' = "update_trader_zone_file"
               /\ UNCHANGED faults
    /\ UNCHANGED <<cfgFile, tzDisk, cmd, run, target, enabled_servers, i,
                   success_count, outcome, log, trail, fin, fout>>

\* update_trader_zone_file reads and parses the trader-zone file; .get on a
\* JSON list raises AttributeError.
ReadTz ==
    /\ pc = "update_trader_zone_file"
    /\ log' = Append(log, Ev("read_tz", target))
    /\ LET file == tzDisk[rot.blackmarket_trader_zone_path] IN
       IF file.st # "ok" \/ file.kind # "obj"
       THEN rot' = Fail(rot, "read_tz") /\ pc' = "server_done"
       ELSE /\ rot' = [rot EXCEPT !.trader_zone =
                          update_trader_zone_file(file.doc, NextPosition(rot))]
            /\ pc' = "open_tz"
    /\ UNCHANGED <<cfgFile, mapDisk, tzDisk, cmd, run, target, enabled_servers, i,
                   success_count, outcome, trail, faults, fin, fout>>

TruncatedTz == [st |-> "truncated", kind |-> "none", doc |-> <<>>]

OpenTz ==
    /\ pc = "open_tz"
    /\ \E fault \in FaultChoice :
          IF fault
          THEN /\ rot' = Fail(rot, "open_tz")
               /\ pc' = "server_done"
               /\ faults' = faults + 1
               /\ UNCHANGED <<tzDisk, log>>
          ELSE /\ tzDisk' = [tzDisk EXCEPT ![rot.blackmarket_trader_zone_path] = TruncatedTz]
               /\ log' = Append(log, Ev("write_tz", target))
               /\ pc' = "write_tz"
               /\ UNCHANGED <<rot, faults>>
    /\ UNCHANGED <<cfgFile, mapDisk, cmd, run, target, enabled_servers, i,
                   success_count, outcome, trail, fin, fout>>

\* json.dump(trader_zone, f, indent=4) and the close of the file.
WriteTz ==
    /\ pc = "write_tz"
    /\ \E fault \in FaultChoice :
          IF fault
          THEN /\ rot' = Fail(rot, "write_tz")
               /\ pc' = "server_done"
               /\ faults' = faults + 1
               /\ UNCHANGED tzDisk
          ELSE /\ tzDisk' = [tzDisk EXCEPT ![rot.blackmarket_trader_zone_path] =
                                TzFile(rot.trader_zone)]
               /\ rot' = [rot EXCEPT !.wrote_tz = TRUE]
               /\ pc' = "notify"
               /\ UNCHANGED faults
    /\ UNCHANGED <<cfgFile, mapDisk, cmd, run, target, enabled_servers, i,
                   success_count, outcome, log, trail, fin, fout>>

\* Why send_discord_notification raises before the HTTP request, or "none":
\* the two settings are read by subscript, and int(color, 16) takes the
\* prefix '0x' and not '#'.
NotifyFailure(global_settings) ==
    IF "discord_embed_color" \notin DOMAIN global_settings THEN "color_key_error"
    ELSE IF global_settings["discord_embed_color"] # "0x" THEN "color_value_error"
    ELSE IF "discord_username" \notin DOMAIN global_settings THEN "username_key_error"
    ELSE "none"

HttpOutcomes == {"204", "500", "exception"}

\* A bug: a webhook send that fails makes the rotation fail.
after_post_fatal(r, status) ==
    IF status = "204" THEN [r EXCEPT !.http = status, !.result = "true"]
    ELSE [r EXCEPT !.http = status, !.failed = "http", !.result = "false"]

\* requests.post in its try block: status 204, any other status and an
\* exception are printed, and rotate goes on to return True.
after_post(r, status) == [r EXCEPT !.http = status, !.result = "true"]

\* Whether send_discord_notification goes as far as the HTTP request.
sends_notification(webhook_url) == webhook_url # ""

\* send_discord_notification and the end of rotate.
Notify ==
    /\ pc = "notify"
    /\ IF ~sends_notification(rot.discord_webhook_url)
       THEN /\ rot' = [rot EXCEPT !.result = "true"]
            /\ UNCHANGED log
       ELSE LET why == NotifyFailure(config["global_settings"]) IN
            IF why # "none"
            THEN /\ rot' = Fail(rot, why)
                 /\ UNCHANGED log
            ELSE \E status \in HttpOutcomes :
                    /\ rot' = after_post(rot, status)
                    /\ log' = Append(log, Ev("http", target))
    /\ pc' = "server_done"
    /\ UNCHANGED <<cfgFile, mapDisk, tzDisk, cmd, run, target, enabled_servers, i,
                   success_count, outcome, trail, faults, fin, fout>>

TrailEntry(r) ==
    [server |-> r.server_id, built |-> r.st = "built", start |-> r.current_index,
     next |-> r.next, wrote_map |-> r.wrote_map, result |-> r.result]

\* rotate_server was called from the loop of rotate_all_servers: by main
\* without --server, or by run_rotation when rotate_all_servers is set (the
\* default).
rotating_all ==
    \/ cmd.kind = "all"
    \/ /\ cmd.kind = "scheduler"
       /\ Get(config["scheduler_settings"], "rotate_all_servers", TRUE)

\* A bug: the loop of rotate_all_servers is left at the first failure.
ServerDoneStopsAtFailure ==
    /\ pc = "server_done"
    /\ trail' = Append(trail, TrailEntry(rot))
    /\ IF rotating_all
       THEN /\ success_count' = IF rot.result = "true" THEN success_count + 1
                                ELSE success_count
            /\ i' = IF rot.result = "true" THEN i + 1 ELSE Len(enabled_servers)
            /\ pc' = "loop"
            /\ UNCHANGED outcome
       ELSE /\ outcome' = rot.result
            /\ pc' = "idle"
            /\ UNCHANGED <<success_count, i>>
    /\ UNCHANGED <<cfgFile, mapDisk, tzDisk, cmd, run, target, enabled_servers,
                   rot, log, faults, fin, fout>>

\* rotate_server returns; in rotate_all_servers the result is counted and
\* the loop goes on.
ServerDone ==
    /\ pc = "server_done"
    /\ trail' = Append(trail, TrailEntry(rot))
    /\ IF rotating_all
       THEN /\ success_count' = IF rot.result = "true" THEN success_count + 1
                                ELSE success_count
            /\ i' = i + 1
            /\ pc' = "loop"
            /\ UNCHANGED outcome
       ELSE /\ outcome' = rot.result
            /\ pc' = "idle"
            /\ UNCHANGED <<success_count, i>>
    /\ UNCHANGED <<cfgFile, mapDisk, tzDisk, cmd, run, target, enabled_servers,
                   rot, log, faults, fin, fout>>

Next ==
    \/ Invoke
    \/ RotateAllLoad
    \/ LoopNext
    \/ LoopEnd
    \/ Construct
    \/ Rotate
    \/ ReadMap
    \/ OpenMap
    \/ WriteMap
    \/ ReadTz
    \/ OpenTz
    \/ WriteTz
    \/ Notify
    \/ ServerDone

Spec == Init /\ [][Next]_vars


\* ------------------------------------------------------------- run_scheduler
\* The settings run_scheduler reads by subscript.
SchedulerSettings(enabled, rotate_all) ==
    [enabled |-> enabled, rotation_times |-> <<"06:00", "18:00">>,
     check_interval_seconds |-> 60, log_file |-> "scheduler.log",
     server_rotation_delay_seconds |-> 5, rotate_all_servers |-> rotate_all]

WithScheduler(sc, settings) ==
    [sc EXCEPT !.cfg.doc = [sc.cfg.doc EXCEPT !["scheduler_settings"] = settings],
               !.cmd = [kind |-> "scheduler", server |-> ""]]

\* The scenarios of the scheduler: a scenario of the rotation, changed in at
\* most one place, with the scheduler enabled or not, rotating all servers,
\* the first enabled one, or without the enabled key.
SchedulerScenarios ==
    {WithScheduler(Deviate(BaseScenario, d), settings) :
        d \in Deviations,
        settings \in {SchedulerSettings(TRUE, TRUE), SchedulerSettings(TRUE, FALSE),
                      SchedulerSettings(FALSE, TRUE),
                      RemoveKey(SchedulerSettings(TRUE, TRUE), "enabled")}}

InitScheduler ==
    \E sc \in SchedulerScenarios :
        /\ cfgFile = sc.cfg
        /\ mapDisk = sc.maps
        /\ tzDisk = sc.tzs
        /\ cmd = sc.cmd
        /\ run = 0
        /\ pc = "run_scheduler"
        /\ target = ""
        /\ enabled_servers = <<>>
        /\ i = 0
        /\ success_count = 0
        /\ rot = NoRot
        /\ outcome = "none"
        /\ log = <<>>
        /\ trail = <<>>
        /\ faults = 0
        /\ fin = NoInput
        /\ fout = NoOutput

\* run_scheduler up to its loop: load_scheduler_config raises when the file
\* cannot be read or parsed or fails validation, the settings are read by
\* subscript, and a disabled scheduler returns.
SchedulerStart ==
    /\ pc = "run_scheduler"
    /\ pc' = IF cfgFile.st # "ok" \/ validate_config(Typed(config)).result # "pass"
             THEN "scheduler_failed"
             ELSE IF "enabled" \notin DOMAIN config["scheduler_settings"]
             THEN "scheduler_failed"
             ELSE IF ~config["scheduler_settings"]["enabled"] THEN "scheduler_disabled"
             ELSE IF {"rotation_times", "check_interval_seconds", "log_file"}
                        \subseteq DOMAIN config["scheduler_settings"]
             THEN "run_pending"
             ELSE "scheduler_failed"
    /\ UNCHANGED <<cfgFile, mapDisk, tzDisk, cmd, run, target, enabled_servers, i,
                   success_count, rot, outcome, log, trail, faults, fin, fout>>

\* schedule.run_pending() in the try block of the loop: no job is due; or a
\* job is due and run_rotation starts (rotate_all_servers, or rotate_server
\* for the first enabled server, or nothing when no server is enabled); or
\* run_pending raises an Exception.
RunPending ==
    /\ pc = "run_pending"
    /\ \/ /\ pc' = "sleep"
          /\ UNCHANGED <<run, target, enabled_servers, i, success_count, rot,
                         outcome, log, faults>>
       \/ /\ run < MaxRuns
          /\ run' = run + 1
          /\ log' = <<>>
          /\ outcome' = "none"
          /\ rot' = NoRot
          /\ enabled_servers' = <<>>
          /\ i' = 0
          /\ success_count' = 0
          /\ IF Get(config["scheduler_settings"], "rotate_all_servers", TRUE)
             THEN pc' = "rotate_all_servers" /\ target' = ""
             ELSE LET enabled == EnabledServers(config["servers"]) IN
                  IF enabled = <<>> THEN pc' = "sleep" /\ target' = ""
                  ELSE pc' = "rotate_server" /\ target' = enabled[1]
          /\ UNCHANGED faults
       \/ /\ faults < MaxFaults
          /\ faults' = faults + 1
          /\ pc' = "handler_sleep"
          /\ UNCHANGED <<run, target, enabled_servers, i, success_count, rot,
                         outcome, log>>
    /\ UNCHANGED <<cfgFile, mapDisk, tzDisk, cmd, trail, fin, fout>>

\* run_rotation logs the result of the rotation and returns; run_pending
\* returns to the loop.
RunRotationEnd ==
    /\ pc = "idle"
    /\ cmd.kind = "scheduler"
    /\ pc' = "sleep"
    /\ UNCHANGED <<cfgFile, mapDisk, tzDisk, cmd, run, target, enabled_servers, i,
                   success_count, rot, outcome, log, trail, faults, fin, fout>>

\* time.sleep(check_interval) in the try block, then the next check.
Sleep ==
    /\ pc = "sleep"
    /\ pc' = "run_pending"
    /\ UNCHANGED <<cfgFile, mapDisk, tzDisk, cmd, run, target, enabled_servers, i,
                   success_count, rot, outcome, log, trail, faults, fin, fout>>

\* time.sleep(check_interval) in the handler of Exception, then the next
\* check.
HandlerSleep ==
    /\ pc = "handler_sleep"
    /\ pc' = "run_pending"
    /\ UNCHANGED <<cfgFile, mapDisk, tzDisk, cmd, run, target, enabled_servers, i,
                   success_count, rot, outcome, log, trail, faults, fin, fout>>

\* Where the loop of run_scheduler can be: in its try block (a rotation that
\* run_pending started included), or in the handler of Exception.
InTryBlock ==
    pc \notin {"run_scheduler", "scheduler_failed", "scheduler_disabled",
               "handler_sleep", "stopped", "KeyboardInterrupt"}

\* The user interrupts the program.  KeyboardInterrupt is no Exception: it
\* passes the handlers of run_rotation, rotate_server and update_files.
\* Raised in the try block of the loop it is caught and the loop is left
\* ("Scheduler stopped by user"); raised in the handler of Exception it
\* leaves run_scheduler.
UserInterrupt ==
    /\ cmd.kind = "scheduler"
    /\ \/ InTryBlock /\ pc' = "stopped"
       \/ pc = "handler_sleep" /\ pc' = "KeyboardInterrupt"
    /\ UNCHANGED <<cfgFile, mapDisk, tzDisk, cmd, run, target, enabled_servers, i,
                   success_count, rot, outcome, log, trail, faults, fin, fout>>

NextScheduler ==
    \/ SchedulerStart
    \/ RunPending
    \/ RunRotationEnd
    \/ Sleep
    \/ HandlerSleep
    \/ UserInterrupt
    \/ RotateAllLoad
    \/ LoopNext
    \/ LoopEnd
    \/ Construct
    \/ Rotate
    \/ ReadMap
    \/ OpenMap
    \/ WriteMap
    \/ ReadTz
    \/ OpenTz
    \/ WriteTz
    \/ Notify
    \/ ServerDone

SpecScheduler == InitScheduler /\ [][NextScheduler]_vars


\* ------------------------------------------------- the pure functions alone
\* The functions that read and render the two files, applied to inputs drawn
\* from bounded sets.
LinePool ==
    {OtherLine, TrailingLine, IndentLine, BlankLine, SpaceLine, VendA, VendB,
     VendNearA, VendTolA, ShortVend, BadVend, VehLine, BothLine}

LineSeqs == UNION {[1..n -> LinePool] : n \in 0..MaxLines}

PositionLists ==
    {<<PosA>>, <<PosA, PosB>>, <<PosA, PosA2>>, <<PosB, PosA2, PosA>>, <<PosAV, PosBV>>}

Restrict(d, keys) == [x \in keys |-> d[x]]

Docs ==
    {Restrict(full, keys) :
        full \in [Position : {<<Int_(0), Int_(0), Int_(0)>>, <<Flt(2000), Flt(0), Flt(0)>>},
                  Stock : {5, 7}, BuyPricePercent : {70}],
        keys \in SUBSET {"Position", "Stock", "BuyPricePercent"}}

\* Positions that carry one of the two vehicle fields only.
PosBClassOnly == PosB @@ [Blackmarket_Vehicle_Classname |-> "truck"]
PosBCoordsOnly ==
    PosB @@ [Blackmarket_Vehicle_Coordinates |-> <<Int_(2010), Int_(0), Int_(0)>>]

\* The values of the top-level keys of a configuration document; Absent
\* stands for a key that is not there.
Absent == Py("absent", <<>>)

ServersValues ==
    {Absent, Py("dict", BaseConfig["servers"]), Py("dict", <<>>),
     Py("list", <<"s1">>), Py("list", <<>>), Py("str", "s1")}

GlobalSettingsValues ==
    {Absent, Py("dict", BaseConfig["global_settings"]),
     Py("dict", [discord_username |-> "Rotator", discord_embed_color |-> "#"]),
     Py("dict", [discord_username |-> "Rotator", discord_embed_color |-> "bad"]),
     Py("dict", [discord_username |-> "Rotator"]),
     Py("list", <<>>), Py("list", <<"discord_username">>), Py("str", "Rotator")}

SchedulerSettingsValues ==
    {Absent, Py("dict", BaseConfig["scheduler_settings"]),
     Py("dict", [server_rotation_delay_seconds |-> 301]),
     Py("list", <<>>), Py("list", <<"enabled">>)}

PositionsValues ==
    {Absent, Py("list", <<>>), Py("dict", <<>>), Py("dict", [a |-> PosA]),
     Py("str", "A")}
    \cup {Py("list", positions) : positions \in
            {<<PosA, PosB>>, <<PosAV, PosBV>>, <<PosAV, PosB>>, <<PosA, PosBV>>,
             <<PosAV, PosBClassOnly>>, <<PosA, PosBCoordsOnly>>, <<PosAV, PosBV, PosC>>}}

\* The documents that are mappings: every choice of the four values.
ConfigDocs ==
    {LET full == [servers |-> sv, global_settings |-> gv,
                  scheduler_settings |-> cv, positions |-> pv]
     IN Restrict(full, {key \in DOMAIN full : full[key] # Absent}) :
        sv \in ServersValues, gv \in GlobalSettingsValues,
        cv \in SchedulerSettingsValues, pv \in PositionsValues}

FnInputs ==
    {[fn |-> "validate_config", file |-> MissingMap, positions |-> <<>>,
      index |-> 0, doc |-> doc] : doc \in ConfigDocs}
    \cup
    {[fn |-> "update_map_file", file |-> MapFile(lines), positions |-> positions,
      index |-> index, doc |-> <<>>] :
        lines \in LineSeqs, positions \in {<<PosA, PosB>>, <<PosAV, PosBV>>},
        index \in 1..2}
    \cup
    {[fn |-> "get_current_position_from_map", file |-> file, positions |-> positions,
      index |-> 0, doc |-> <<>>] :
        file \in {MapFile(lines) : lines \in LineSeqs} \cup {MissingMap, UnreadableMap},
        positions \in PositionLists}
    \cup
    {[fn |-> "update_trader_zone_file", file |-> MissingMap, positions |-> positions,
      index |-> index, doc |-> doc] :
        doc \in Docs, positions \in {<<PosA, PosB>>}, index \in 1..2}

InitFn ==
    /\ cfgFile = BaseScenario.cfg
    /\ mapDisk = BaseScenario.maps
    /\ tzDisk = BaseScenario.tzs
    /\ cmd = BaseScenario.cmd
    /\ run = 0
    /\ pc = "fn"
    /\ target = ""
    /\ enabled_servers = <<>>
    /\ i = 0
    /\ success_count = 0
    /\ rot = NoRot
    /\ outcome = "none"
    /\ log = <<>>
    /\ trail = <<>>
    /\ faults = 0
    /\ fin \in FnInputs
    /\ fout = NoOutput

FnFrame ==
    UNCHANGED <<cfgFile, mapDisk, tzDisk, cmd, run, target, enabled_servers, i,
                success_count, rot, outcome, log, trail, faults, fin>>

CallUpdateMapFile ==
    /\ pc = "fn"
    /\ fin.fn = "update_map_file"
    /\ fout' = [NoOutput EXCEPT
           !.fn = fin.fn,
           !.content = update_map_file(fin.file.lines, fin.positions[fin.index],
                                       check_vehicles_enabled(fin.positions))]
    /\ pc' = "fn_done"
    /\ FnFrame

CallGetCurrentPosition ==
    /\ pc = "fn"
    /\ fin.fn = "get_current_position_from_map"
    /\ fout' = [NoOutput EXCEPT
           !.fn = fin.fn,
           !.current = get_current_position_from_map(fin.file, fin.positions)]
    /\ pc' = "fn_done"
    /\ FnFrame

CallUpdateTraderZoneFile ==
    /\ pc = "fn"
    /\ fin.fn = "update_trader_zone_file"
    /\ fout' = [NoOutput EXCEPT
           !.fn = fin.fn,
           !.trader_zone = update_trader_zone_file(fin.doc, fin.positions[fin.index])]
    /\ pc' = "fn_done"
    /\ FnFrame

CallValidateConfig ==
    /\ pc = "fn"
    /\ fin.fn = "validate_config"
    /\ fout' = [NoOutput EXCEPT !.fn = fin.fn, !.validation = validate_config(fin.doc)]
    /\ pc' = "fn_done"
    /\ FnFrame

NextFn ==
    \/ CallValidateConfig
    \/ CallUpdateMapFile
    \/ CallGetCurrentPosition
    \/ CallUpdateTraderZoneFile

SpecFn == InitFn /\ [][NextFn]_vars


\* ================================================================== claims

\* The lines that carry neither marker.
IsNoMarkerLine(line) == ~HasTok(line, VEND) /\ ~HasTok(line, VEH)
NonMarkerLines(lines) == SelectSeq(lines, IsNoMarkerLine)
IsBlank(line) == \A n \in 1..Len(line) : line[n].k = "sp"
IsKeptLine(line) == IsNoMarkerLine(line) /\ ~IsBlank(line)
HasTrailingSpace(line) == line # <<>> /\ line[Len(line)].k = "sp"
Stripped(lines) == [n \in 1..Len(lines) |-> rstrip(lines[n])]

UpdateMapFileDone == pc = "fn_done" /\ fout.fn = "update_map_file"

UpdateTraderZoneDone == pc = "fn_done" /\ fout.fn = "update_trader_zone_file"

\* C3: update_trader_zone_file returns a document with the keys of the
\* loaded document and Position, each key but Position with the value it
\* had, and Position the vending coordinates of the new position.
C3_OnlyPositionChanges ==
    UpdateTraderZoneDone =>
        /\ DOMAIN fout.trader_zone = DOMAIN fin.doc \cup {"Position"}
        /\ \A key \in DOMAIN fin.doc \ {"Position"} : fout.trader_zone[key] = fin.doc[key]
        /\ fout.trader_zone["Position"] =
               fin.positions[fin.index]["Blackmarket_Vending_Coordinates"]

\* A document with other keys and another Position was updated.
C3_Witness ==
    /\ UpdateTraderZoneDone
    /\ DOMAIN fin.doc = {"Position", "Stock", "BuyPricePercent"}
    /\ fin.doc["Position"] # fout.trader_zone["Position"]

GetCurrentDone == pc = "fn_done" /\ fout.fn = "get_current_position_from_map"

\* The coordinates differ by less than 0.1 on every axis.
Within(coords, position) ==
    \A axis \in 1..3 :
        Abs(coords[axis].v - position["Blackmarket_Vending_Coordinates"][axis].v) < Tolerance

\* The map file is read and its first complete vending line parses.
HasCoords(file) == file.st = "ok" /\ ScanVending(file.lines).kind = "coords"
CoordsOf(file) == ScanVending(file.lines).c

Inconclusive(file, positions) ==
    \/ file.st = "missing"
    \/ file.st = "unreadable"
    \/ ScanVending(file.lines).kind = "raise"
    \/ ScanVending(file.lines).kind = "none"
    \/ \A n \in 1..Len(positions) : ~Within(CoordsOf(file), positions[n])

\* C7: get_current_position_from_map returns index 0, and no match, when
\* the map file is missing, cannot be read or parsed, has no vending line
\* or has coordinates that match no position.
C7_InconclusiveIsZero ==
    GetCurrentDone /\ Inconclusive(fin.file, fin.positions) =>
        fout.current.index = 0 /\ fout.current.reason # "matched"

\* Coordinates that match none of several positions were looked up.
C7_Witness ==
    /\ GetCurrentDone
    /\ HasCoords(fin.file)
    /\ Len(fin.positions) > 1
    /\ fout.current.reason = "no_match"


\* ----------------------------------------------------- claims on the program
TrailOf(server) == SelectSeq(trail, LAMBDA e : e.server = server)
CountEv(op, server) == Cardinality({n \in 1..Len(log) : log[n] = Ev(op, server)})

\* The index a run made active: the index it rotated to, or with a single
\* position the index it found.
ActiveAfter(e, positions) == IF Len(positions) = 1 THEN e.start ELSE e.next

\* The first n runs of a server all rotated: the rotator was built and,
\* when there is more than one position, the map file was rewritten.
Rotated(entries, n, positions) ==
    \A k \in 1..n :
        entries[k].built /\ (Len(positions) > 1 => entries[k].wrote_map)

CycleCovers(entries, positions) ==
    LET n == Len(positions) IN
    /\ \A k, m \in 1..n :
          k # m => ActiveAfter(entries[k], positions) # ActiveAfter(entries[m], positions)
    /\ ActiveAfter(entries[n], positions) = entries[1].start

\* No two positions are within 0.1 of each other on every axis.
PositionsApart(positions) ==
    \A m, n \in 1..Len(positions) :
        m # n => ~Within(positions[m]["Blackmarket_Vending_Coordinates"], positions[n])

\* C1 as stated: for every valid configuration, N consecutive rotations of
\* a server (here: that all returned success) make every position the
\* active one once and end at the index the first of them started from.
C1_CycleForEveryConfig ==
    \A server \in {"s1", "s2"} :
        LET entries == TrailOf(server)
            positions == config["positions"]
        IN Len(positions) >= 1 /\ Len(entries) >= Len(positions)
           /\ (\A k \in 1..Len(positions) : entries[k].result = "true")
           => CycleCovers(entries, positions)

\* C1 as amended: when no two positions are within 0.1 of each other on
\* every axis, N consecutive rotations of a server make every position the
\* active one once and end at the index the first of them started from.
C1_CycleWhenPositionsApart ==
    \A server \in {"s1", "s2"} :
        LET entries == TrailOf(server)
            positions == config["positions"]
        IN Len(positions) >= 1 /\ Len(entries) >= Len(positions)
           /\ Rotated(entries, Len(positions), positions)
           /\ PositionsApart(positions)
           => CycleCovers(entries, positions)

\* Three positions were rotated through, from a start that is not index 0.
C1_Witness ==
    /\ Len(config["positions"]) = 3
    /\ Len(TrailOf("s1")) = 3
    /\ Rotated(TrailOf("s1"), 3, config["positions"])
    /\ TrailOf("s1")[1].start = 1
    /\ pc = "idle"

IOFailures == {"read_map", "open_map", "write_map", "read_tz", "open_tz", "write_tz"}

RotateFailed == pc = "server_done" /\ rot.st = "built" /\ rot.failed \in IOFailures

MapNow == mapDisk[rot.blackmarket_map_path]
TzNow == tzDisk[rot.blackmarket_trader_zone_path]

\* C4 as stated, for the failures of its example (a file that is missing
\* or does not parse): when the step fails, rotate reports failure and both
\* files have the content they had before.
C4_FailureChangesNothing ==
    RotateFailed /\ rot.failed \in {"read_map", "read_tz"} =>
        /\ rot.result = "false"
        /\ MapNow = rot.before_map
        /\ TzNow = rot.before_tz

\* C4 as amended: when a read, parse or write step of a rotation fails,
\* rotate reports failure; both files have their content of before when the
\* step is before the truncation of the map file; the trader-zone file has
\* its content of before when the step is before its own truncation, and
\* the map file then holds the rendered content once it was written.
C4_FailureReportedAndLaterFileKept ==
    RotateFailed =>
        /\ rot.result = "false"
        /\ rot.failed \in {"read_map", "open_map"}
              => MapNow = rot.before_map /\ TzNow = rot.before_tz
        /\ rot.failed \in {"write_map", "read_tz", "open_tz"} => TzNow = rot.before_tz
        /\ rot.failed \in {"read_tz", "open_tz"} => MapNow = MapFile(rot.map_content)

\* The trader-zone file could not be read after the map file was changed.
C4_Witness ==
    /\ RotateFailed
    /\ rot.failed = "read_tz"
    /\ MapNow # rot.before_map

RotateSucceeded ==
    pc = "server_done" /\ rot.st = "built" /\ rot.result = "true"

VendingLinesOf(file) == SelectSeq(file.lines, IsVendingLine)

\* The line carries the coordinates, as numbers.
Carries(line, coords) ==
    LET found == ScanVending(<<line>>) IN
    /\ found.kind = "coords"
    /\ \A axis \in 1..3 : found.c[axis].v = coords[axis].v

\* C5: after a successful rotate over two or more positions, from the
\* detected index n, the map file has a vending line, each vending line
\* carries the coordinates of position (n+1) mod N, the Position of the
\* trader-zone file is those coordinates, and without vehicles the map
\* file has no vehicle line.
C5_FilesConsistent ==
    RotateSucceeded /\ Len(rot.positions) >= 2 =>
        LET n == rot.current_index
            coords == rot.positions[((n + 1) % Len(rot.positions)) + 1]
                          ["Blackmarket_Vending_Coordinates"]
        IN /\ MapNow.st = "ok"
           /\ VendingLinesOf(MapNow) # <<>>
           /\ \A k \in 1..Len(MapNow.lines) :
                 IsVendingLine(MapNow.lines[k]) => Carries(MapNow.lines[k], coords)
           /\ TzNow.st = "ok" /\ TzNow.kind = "obj"
           /\ TzNow.doc["Position"] = coords
           /\ ~rot.vehicles_enabled
                 => \A k \in 1..Len(MapNow.lines) : ~HasTok(MapNow.lines[k], VEH)

\* A rotation from the last position back to the first succeeded, on a map
\* file that had a vehicle line and with vehicles disabled.
C5_Witness ==
    /\ RotateSucceeded
    /\ Len(rot.positions) >= 2
    /\ rot.current_index = Len(rot.positions) - 1
    /\ ~rot.vehicles_enabled
    /\ rot.before_map.st = "ok"

\* C8: with fewer than two positions rotate reports success, leaves both
\* files as they were and opens neither for writing, and sends no
\* notification.
C8_SinglePositionIsNoOp ==
    pc = "server_done" /\ rot.st = "built" /\ Len(rot.positions) < 2 =>
        /\ rot.result = "true"
        /\ MapNow = rot.before_map
        /\ TzNow = rot.before_tz
        /\ CountEv("write_map", target) = 0
        /\ CountEv("write_tz", target) = 0
        /\ CountEv("http", target) = 0

\* A single position was rotated, on a server with a webhook.
C8_Witness ==
    /\ pc = "server_done"
    /\ rot.st = "built"
    /\ Len(rot.positions) = 1
    /\ rot.discord_webhook_url # ""
    /\ rot.result = "true"

RotateAllReturned ==
    pc = "idle" /\ cmd.kind = "all" /\ outcome # "none" /\ cfgFile.st = "ok"

Attempts(server) == CountEv("rotate_server", server)

\* The entries of the servers rotated in this invocation.
ThisInvocation ==
    LET n == Cardinality({k \in 1..Len(log) : log[k].op = "rotate_server"})
    IN SubSeq(trail, Len(trail) - n + 1, Len(trail))

Successes == Cardinality({k \in 1..Len(ThisInvocation) : ThisInvocation[k].result = "true"})
Enabled == EnabledServers(config["servers"])

NoWebhook(server) ==
    LET server_config == ServerConfig(config["servers"], server) IN
    \/ "discord_webhook_url" \notin DOMAIN server_config
    \/ server_config["discord_webhook_url"] = ""

\* C10: for a server of a valid configuration that has no webhook URL, no
\* HTTP request is made and, unless a step on the files fails, the rotation
\* reports success.
C10_NoWebhookStillSucceeds ==
    /\ pc = "server_done"
    /\ cfgFile.st = "ok"
    /\ validate_config(Typed(config)).result = "pass"
    /\ target \in ServerIds(config["servers"])
    /\ NoWebhook(target)
    => /\ CountEv("http", target) = 0
       /\ rot.failed \notin IOFailures => rot.result = "true"


\* ------------------------------------------------------------------- C11
\* The webhook send came back with an error: a status that is not 204, or
\* an exception of the transport.
WebhookFailed == pc = "server_done" /\ rot.http \in {"500", "exception"}

\* C11: once both files are written, a webhook send that raises or returns
\* a non-success status leaves the result of rotate at success, and both
\* files hold the content that was rendered for the new position.
C11_WebhookFailureIsNonFatal ==
    WebhookFailed =>
        /\ rot.result = "true"
        /\ rot.failed = "none"
        /\ mapDisk[rot.blackmarket_map_path] = MapFile(rot.map_content)
        /\ tzDisk[rot.blackmarket_trader_zone_path] = TzFile(rot.trader_zone)

C11_Witness ==
    /\ WebhookFailed
    /\ rot.wrote_map /\ rot.wrote_tz
    /\ rot.before_map # mapDisk[rot.blackmarket_map_path]
    /\ rot.before_tz # tzDisk[rot.blackmarket_trader_zone_path]


\* ------------------------------------------------------------------- C12
ValidateConfigDone == pc = "fn_done" /\ fout.fn = "validate_config"

\* A top-level key of the wrong container kind.
WrongContainerKind(doc) ==
    \/ \E key \in {"servers", "global_settings", "scheduler_settings"} :
          key \in DOMAIN doc /\ doc[key].kind = "list"
    \/ "positions" \in DOMAIN doc /\ doc["positions"].kind = "dict"

\* validate_config went through the list of positions: no section validator
\* raised, and positions is a list that is not empty.
PositionsValidated ==
    /\ ValidateConfigDone
    /\ fout.validation.result \in {"pass", "ValueError"}
    /\ "positions" \in DOMAIN fin.doc
    /\ fin.doc["positions"].kind = "list"
    /\ fin.doc["positions"].val # <<>>

CountErr(errors, e) == Cardinality({k \in 1..Len(errors) : errors[k] = e})

MissingVehicleField(positions, n, field) == field \notin DOMAIN positions[n]

\* C12: when some position carries a vehicle classname or vehicle
\* coordinates, validation fails unless every position carries both, with
\* exactly one error for each position and each vehicle field it lacks;
\* when no position carries a vehicle field, no error names one.
C12_VehiclesAllOrNothing ==
    PositionsValidated =>
        LET positions == fin.doc["positions"].val
            errors == fout.validation.errors
            missing(n, m) == Err("position_missing_field", n - 1, VehicleFields[m])
        IN IF check_vehicles_enabled(positions)
           THEN /\ \A n \in 1..Len(positions), m \in 1..2 :
                      CountErr(errors, missing(n, m)) =
                          IF MissingVehicleField(positions, n, VehicleFields[m])
                          THEN 1 ELSE 0
                /\ (\E n \in 1..Len(positions), m \in 1..2 :
                       MissingVehicleField(positions, n, VehicleFields[m]))
                   => fout.validation.result = "ValueError"
           ELSE \A n \in 1..Len(positions), m \in 1..2 :
                   CountErr(errors, missing(n, m)) = 0

\* A document that is valid but for one position with vehicle coordinates
\* and no vehicle classname, next to a position without vehicle fields.
C12_Witness ==
    /\ PositionsValidated
    /\ DOMAIN fin.doc = {"servers", "global_settings", "scheduler_settings", "positions"}
    /\ ~WrongContainerKind(fin.doc)
    /\ fin.doc["positions"].val = <<PosA, PosBCoordsOnly>>
    /\ fout.validation.result = "ValueError"
    /\ Len(fout.validation.errors) = 3

\* ------------------------------------------------------------------- C13
\* C13: for every document that is a mapping validate_config passes or
\* raises the aggregated validation failure and no other exception, and a
\* top-level key of the wrong container kind makes it raise that failure.
C13_ValidationPassesOrFails ==
    ValidateConfigDone =>
        /\ fout.validation.result \in {"pass", "ValueError"}
        /\ WrongContainerKind(fin.doc) => fout.validation.result = "ValueError"


\* ------------------------------------------------------------------- C14
\* The configuration file cannot be read or parsed, the configuration fails
\* validation, or no server has the id.
ConfigBroken(id) ==
    \/ cfgFile.st # "ok"
    \/ validate_config(Typed(config)).result # "pass"
    \/ id \notin ServerIds(config["servers"])

\* rotate_server is past the construction of the rotator.
PastConstruction == pc \notin {"idle", "rotate_all_servers", "loop", "rotate_server"}

\* C14: with a configuration file that is unreadable or unparseable, a
\* configuration that fails validation or a server id that is not
\* configured, rotate_server reports failure and the call is its only
\* event: no map file and no trader-zone file is read or written.
C14_BrokenConfigTouchesNoFile ==
    (PastConstruction /\ ConfigBroken(target)) =>
        /\ pc = "server_done"
        /\ rot.st = "none"
        /\ rot.result = "false"
        /\ ~rot.wrote_map /\ ~rot.wrote_tz
        /\ log # <<>> /\ log[Len(log)] = Ev("rotate_server", target)

\* The second server of a rotation of all servers fails on a configuration
\* that does not validate, with its files there to be read.
C14_Witness ==
    /\ pc = "server_done"
    /\ cmd.kind = "all" /\ i = 1
    /\ cfgFile.st = "ok"
    /\ rot.failed = "config_invalid"
    /\ rot.result = "false"
    /\ mapDisk["map2"].st = "ok" /\ tzDisk["tz2"].st = "ok"
    /\ mapDisk["map2"] = BaseScenario.maps["map2"]
C14_WitnessUnreadable == pc = "server_done" /\ rot.failed = "config_unreadable"
C14_WitnessNotFound == pc = "server_done" /\ rot.failed = "server_not_found"


\* ------------------------------------------------------------------- C15
HasVehicleMarker(line) == HasTok(line, VEH)
NotBlank(line) == ~IsBlank(line)

\* The vehicle line of a position: classname, marker, coordinates, rotation.
VehicleLineOf(position) ==
    <<Txt(position["Blackmarket_Vehicle_Classname"]), VEH,
      FormatNum(position["Blackmarket_Vehicle_Coordinates"][1]), SP,
      FormatNum(position["Blackmarket_Vehicle_Coordinates"][2]), SP,
      FormatNum(position["Blackmarket_Vehicle_Coordinates"][3]), BAR>>
    \o (LET r == IF "Blackmarket_Vehicle_Rotation" \in DOMAIN position
                 THEN position["Blackmarket_Vehicle_Rotation"]
                 ELSE <<Flt(0), Flt(0), Flt(0)>>
        IN <<FormatNum(r[1]), SP, FormatNum(r[2]), SP, FormatNum(r[3])>>)

VehiclesConfigured(positions) ==
    \E n \in 1..Len(positions) :
        DOMAIN positions[n] \cap
            {"Blackmarket_Vehicle_Classname", "Blackmarket_Vehicle_Coordinates"} # {}

\* C15: without vehicles no line of update_map_file's output carries the
\* vehicle marker; with vehicles every line that carries it is the vehicle
\* line of the new position and there is one: where the input had vehicle
\* lines they are replaced in place and none is appended, and where it had
\* none the line is appended as the last line.
C15_VehicleLineDroppedOrRendered ==
    UpdateMapFileDone =>
        LET position == fin.positions[fin.index]
            out == fout.content
            kept == SelectSeq(fin.file.lines, NotBlank)
        IN IF ~VehiclesConfigured(fin.positions)
           THEN \A n \in 1..Len(out) : ~HasVehicleMarker(out[n])
           ELSE /\ \E n \in 1..Len(out) : out[n] = VehicleLineOf(position)
                /\ \A n \in 1..Len(out) :
                      HasVehicleMarker(out[n]) => out[n] = VehicleLineOf(position)
                /\ Len(out) >= Len(kept)
                /\ \A n \in 1..Len(kept) :
                      HasVehicleMarker(kept[n]) <=> HasVehicleMarker(out[n])
                /\ IF \E n \in 1..Len(kept) : HasVehicleMarker(kept[n])
                   THEN \A n \in (Len(kept) + 1)..Len(out) : ~HasVehicleMarker(out[n])
                   ELSE /\ out[Len(out)] = VehicleLineOf(position)
                        /\ \A n \in 1..(Len(out) - 1) : ~HasVehicleMarker(out[n])

\* Without vehicles, a file with a vehicle line was rendered.
C15_Witness ==
    /\ UpdateMapFileDone
    /\ ~VehiclesConfigured(fin.positions)
    /\ \E n \in 1..Len(fin.file.lines) : HasVehicleMarker(fin.file.lines[n])
    /\ fout.content # <<>>
C15_WitnessReplaced ==
    /\ UpdateMapFileDone
    /\ VehiclesConfigured(fin.positions)
    /\ fin.file.lines = <<VehLine, OtherLine>>
    /\ fout.content[1] = VehicleLineOf(fin.positions[fin.index])
C15_WitnessAppended ==
    /\ UpdateMapFileDone
    /\ VehiclesConfigured(fin.positions)
    /\ fin.file.lines = <<OtherLine>>
    /\ Len(fout.content) = 3


\* ------------------------------------------------------------------- C16
\* rotate has chosen the next position: update_files is running or is over.
UpdateFilesBegun == rot.st = "built" /\ rot.next >= 0

\* The replacement of the map file and of the trader-zone file, rendered
\* from the content the file had before the rotation.
RenderedMap ==
    MapFile(update_map_file(rot.before_map.lines, NextPosition(rot),
                            rot.vehicles_enabled))
RenderedTz == TzFile(update_trader_zone_file(rot.before_tz.doc, NextPosition(rot)))

\* C16: at every point of update_files, between any two of its steps, the
\* map file on the disk is entirely its content of before the rotation or
\* entirely the rendered replacement, and so is the trader-zone file.
C16_EachFileAllOrNothing ==
    UpdateFilesBegun =>
        /\ \/ mapDisk[rot.blackmarket_map_path] = rot.before_map
           \/ /\ rot.before_map.st = "ok"
              /\ mapDisk[rot.blackmarket_map_path] = RenderedMap
        /\ \/ tzDisk[rot.blackmarket_trader_zone_path] = rot.before_tz
           \/ /\ rot.before_tz.st = "ok" /\ rot.before_tz.kind = "obj"
              /\ tzDisk[rot.blackmarket_trader_zone_path] = RenderedTz


\* ------------------------------------------------------------------- C17
\* An invocation that rotates all servers and could load its configuration.
RotatingAll == cmd.kind = "all" /\ cfgFile.st = "ok" /\ run > 0

\* The ids of the servers whose enabled flag is true or absent, in the
\* order of their declaration.
DeclaredEnabled ==
    LET on(server) == IF "enabled" \in DOMAIN server.cfg THEN server.cfg["enabled"]
                      ELSE TRUE
        sel == SelectSeq(config["servers"], on)
    IN [n \in 1..Len(sel) |-> sel[n].id]

IsDeclaredEnabled(id) == \E n \in 1..Len(DeclaredEnabled) : DeclaredEnabled[n] = id
Rank(id) == CHOOSE n \in 1..Len(DeclaredEnabled) : DeclaredEnabled[n] = id

FileOps == {"read_map", "write_map", "read_tz", "write_tz"}

\* C17: rotate_all_servers handles the enabled servers only (a server
\* without the flag is enabled), in their declared order and one at a time:
\* every event of a server comes before every event of the next one, each
\* server is begun once, the delay comes right before the begin of every
\* server but the first, and no file of a disabled server is read or
\* written.
C17_EnabledServersInOrderOneAtATime ==
    RotatingAll =>
        /\ \A k \in 1..Len(log) : IsDeclaredEnabled(log[k].server)
        /\ \A k, l \in 1..Len(log) :
              k < l => Rank(log[k].server) <= Rank(log[l].server)
        /\ \A k \in 1..Len(log) :
              (Rank(log[k].server) > 1 /\ log[k].op # "sleep") =>
                  \E l \in 1..(k - 1) :
                      log[l] = Ev("rotate_server", DeclaredEnabled[Rank(log[k].server) - 1])
        /\ \A k, l \in 1..Len(log) :
              (log[k].op = "rotate_server" /\ log[l] = log[k]) => k = l
        /\ \A k \in 1..Len(log) :
              log[k].op = "rotate_server" =>
                  IF Rank(log[k].server) = 1 THEN k = 1
                  ELSE k > 1 /\ log[k - 1] = Ev("sleep", log[k].server)
        /\ \A k \in 1..Len(log) :
              log[k].op = "sleep" =>
                  /\ Rank(log[k].server) > 1
                  /\ k < Len(log) => log[k + 1] = Ev("rotate_server", log[k].server)
        /\ \A k \in 1..Len(log) :
              log[k].op \in FileOps =>
                  \E l \in 1..(k - 1) : log[l] = Ev("rotate_server", log[k].server)
        /\ (pc = "idle" /\ DeclaredEnabled # <<>>) =>
              \A n \in 1..Len(DeclaredEnabled) :
                  \E k \in 1..Len(log) : log[k] = Ev("rotate_server", DeclaredEnabled[n])

\* Both servers were rotated, the second without the enabled flag: the
\* files of both were written and the delay came once.
C17_Witness ==
    /\ RotatingAll /\ pc = "idle"
    /\ "enabled" \notin DOMAIN config["servers"][2].cfg
    /\ DeclaredEnabled = <<"s1", "s2">>
    /\ \E k \in 1..Len(log) : log[k] = Ev("write_tz", "s1")
    /\ \E k \in 1..Len(log) : log[k] = Ev("write_tz", "s2")
    /\ Cardinality({k \in 1..Len(log) : log[k].op = "sleep"}) = 1
\* The first server is disabled and the second is rotated.
C17_WitnessDisabled ==
    /\ RotatingAll /\ pc = "idle"
    /\ DeclaredEnabled = <<"s2">>
    /\ log # <<>> /\ log[1] = Ev("rotate_server", "s2")
    /\ \E k \in 1..Len(log) : log[k] = Ev("write_map", "s2")


\* ------------------------------------------------------------------- C18
\* The rotation of a server with a webhook URL wrote both of its files.
WroteBothWithWebhook ==
    /\ pc = "server_done"
    /\ rot.wrote_map /\ rot.wrote_tz
    /\ rot.discord_webhook_url # ""

\* C18: with a configuration that passed validation, whatever the color
\* ('0x' or '#' prefix, or absent) and whether or not there is a username,
\* a rotation that wrote both files with a webhook URL configured went as
\* far as the HTTP request and reports success.
C18_AcceptedSettingsAreUsable ==
    WroteBothWithWebhook =>
        /\ validate_config(Typed(config)).result = "pass"
        /\ rot.http # "none"
        /\ rot.result = "true"


\* ------------------------------------------------------------------- C19
\* update_files returned True for the rotation of this server.
UpdateFilesSucceeded == rot.st = "built" /\ rot.wrote_map /\ rot.wrote_tz

\* The vending line of a position: classname, marker, coordinates, rotation.
VendingLineOf(position) ==
    <<Txt(position["Blackmarket_Vending_Classname"]), VEND,
      FormatNum(position["Blackmarket_Vending_Coordinates"][1]), SP,
      FormatNum(position["Blackmarket_Vending_Coordinates"][2]), SP,
      FormatNum(position["Blackmarket_Vending_Coordinates"][3]), BAR>>
    \o (LET r == IF "Blackmarket_Vending_Rotation" \in DOMAIN position
                 THEN position["Blackmarket_Vending_Rotation"]
                 ELSE <<Flt(0), Flt(0), Flt(0)>>
        IN <<FormatNum(r[1]), SP, FormatNum(r[2]), SP, FormatNum(r[3])>>)

\* The smallest index of a position within 0.1 of position j on every axis.
SmallestWithin(j, positions) ==
    CHOOSE n \in 0..(Len(positions) - 1) :
        /\ Within(positions[j + 1]["Blackmarket_Vending_Coordinates"], positions[n + 1])
        /\ \A m \in 0..(n - 1) :
              ~Within(positions[j + 1]["Blackmarket_Vending_Coordinates"], positions[m + 1])

C19_WitnessNear ==
    /\ cfgFile.st = "ok"
    /\ config["positions"] = <<PosA, PosA2>>
    /\ Len(TrailOf("s1")) = 2
    /\ TrailOf("s1")[1].wrote_map /\ TrailOf("s1")[1].result = "true"
    /\ TrailOf("s1")[1].next = 1
    /\ TrailOf("s1")[2].built /\ TrailOf("s1")[2].start = 0

\* ------------------------------------------------------------------- C20
\* C20: the loop of run_scheduler is not ended by an exception of a
\* rotation or of running the pending jobs, and it ends on a user
\* interrupt only, which stops it gracefully: the loop is left by its
\* break and no KeyboardInterrupt leaves run_scheduler.
C20_LoopEndsOnlyGracefully ==
    cmd.kind = "scheduler" => pc # "KeyboardInterrupt"

=============================================================================
